---- MODULE Spec2Model ----
(***************************************************************************)
(* Model of the Intel compiler-suite easyblock EB_intel                    *)
(* (src/easyblocks/i/intel.py): the version comparisons it makes with      *)
(* distutils' LooseVersion, the sanity-check specification built by        *)
(* sanity_check_step and the environment guesses built by                  *)
(* make_module_req_guess.                                                  *)
(*                                                                         *)
(* A version string is a sequence of one-character strings.  A path is the *)
(* sequence of its '/'-separated components, so "lib/intel64" is           *)
(* <<"lib", "intel64">>; an absolute path starts with the component "".    *)
(* None (and the empty string) is the empty sequence: both are falsy.      *)
(***************************************************************************)
EXTENDS Integers, Sequences, FiniteSets, TLC

VARIABLES
    cfg,               \* self.cfg: official_version, m32, hide_mpi
    debuggerpath,      \* self.debuggerpath
    comp_libs_subdir,  \* self.comp_libs_subdir
    outcome,           \* how the last make_module_req_guess call ended
    guesses,           \* the dict it returned: key -> list object
    heap,              \* the list objects: list object -> its fragments
    probe,             \* what the filesystem and get_tbb_gccprefix answered
    repeated,          \* the last call had the answers of the one before it
    appended,          \* keys whose returned list the caller appended to
    sanity,            \* what sanity_check_step handed to the runner
    va, vb, vc,        \* three version strings under comparison
    cmps               \* the results of comparing them

vars == <<cfg, debuggerpath, comp_libs_subdir, outcome, guesses, heap, probe,
          repeated, appended, sanity, va, vb, vc, cmps>>

None == <<>>

\* ------------------------------------------------------------ bounds

\* Longest generated version string (the named versions are longer).
MaxVerLen == 2

\* Most fragments a caller appends to the lists of one returned map.
MaxAppend == 1

\* ------------------------------------------------------- characters

Digits == {"0", "1", "2", "3", "4", "5", "6", "7", "8", "9"}

Lowers == {"p", "s"}

\* ord(c) for the characters that occur
Ord(c) ==
    CASE c = "." -> 46
      [] c = "0" -> 48 [] c = "1" -> 49 [] c = "2" -> 50 [] c = "3" -> 51
      [] c = "4" -> 52 [] c = "5" -> 53 [] c = "6" -> 54 [] c = "7" -> 55
      [] c = "8" -> 56 [] c = "9" -> 57
      [] c = "_" -> 95 [] c = "p" -> 112 [] c = "s" -> 115

DigitVal(c) == Ord(c) - 48

\* Which alternative of component_re a character belongs to; "other" is the
\* text re.split leaves between matches.
CharClass(c) ==
    IF c \in Digits THEN "digit"
    ELSE IF c \in Lowers THEN "lower"
    ELSE IF c = "." THEN "dot"
    ELSE "other"

\* ''.join(chars)
RECURSIVE Str(_)
Str(s) == IF s = <<>> THEN "" ELSE s[1] \o Str(Tail(s))

\* ----------------------------------------------------- LooseVersion

\* Length of the first piece component_re.split cuts off s: a maximal run of
\* digits, of lowercase letters or of other characters, or one dot.
RECURSIVE RunLen(_, _)
RunLen(s, n) ==
    IF n < Len(s) /\ CharClass(s[1]) # "dot" /\ CharClass(s[n + 1]) = CharClass(s[1])
    THEN RunLen(s, n + 1)
    ELSE n

\* component_re.split(vstring) without the empty pieces
RECURSIVE SplitComponents(_)
SplitComponents(s) ==
    IF s = <<>> THEN <<>>
    ELSE LET n == RunLen(s, 1)
         IN <<SubSeq(s, 1, n)>> \o SplitComponents(SubSeq(s, n + 1, Len(s)))

\* int(obj) of a run of digits
RECURSIVE IntOf(_)
IntOf(r) ==
    IF r = <<>> THEN 0
    ELSE 10 * IntOf(SubSeq(r, 1, Len(r) - 1)) + DigitVal(r[Len(r)])

\* One component: an int when int(obj) succeeds, else the string itself.
Component(r) ==
    IF CharClass(r[1]) = "digit"
    THEN [isnum |-> TRUE, n |-> IntOf(r), s |-> <<>>]
    ELSE [isnum |-> FALSE, n |-> 0, s |-> r]

\* LooseVersion(vstring).version
LooseVersion(vstring) ==
    LET pieces == SelectSeq(SplitComponents(vstring), LAMBDA r : r # <<".">>)
    IN [i \in 1..Len(pieces) |-> Component(pieces[i])]

IntCmp(x, y) == IF x < y THEN -1 ELSE IF x > y THEN 1 ELSE 0

\* cmp of two str objects: by character, then by length
RECURSIVE StrCmp(_, _)
StrCmp(x, y) ==
    IF x = <<>> \/ y = <<>> THEN IntCmp(Len(x), Len(y))
    ELSE IF x[1] # y[1] THEN IntCmp(Ord(x[1]), Ord(y[1]))
    ELSE StrCmp(Tail(x), Tail(y))

\* A mixed comparison that answers "less" whichever side the int is on.
ComponentCmpMixedLess(x, y) ==
    IF x.isnum /\ y.isnum THEN IntCmp(x.n, y.n)
    ELSE IF ~x.isnum /\ ~y.isnum THEN StrCmp(x.s, y.s)
    ELSE -1

\* cmp of two components.  The thresholds of the easyblock ('2013_sp1') are
\* compared with all-numeric versions, which only the ordering of mixed
\* types orders: an int is smaller than any str.
ComponentCmp(x, y) ==
    IF x.isnum /\ y.isnum THEN IntCmp(x.n, y.n)
    ELSE IF ~x.isnum /\ ~y.isnum THEN StrCmp(x.s, y.s)
    ELSE IF x.isnum THEN -1 ELSE 1

\* cmp of two lists: the first pair of unequal items decides, else the length
RECURSIVE ListCmp(_, _)
ListCmp(x, y) ==
    IF x = <<>> \/ y = <<>> THEN IntCmp(Len(x), Len(y))
    ELSE IF x[1] # y[1] THEN ComponentCmp(x[1], y[1])
    ELSE ListCmp(Tail(x), Tail(y))

\* LooseVersion.__cmp__
LooseVersionCmp(a, b) == ListCmp(LooseVersion(a), LooseVersion(b))

\* ------------------------------------------------- version literals

V2011 == <<"2", "0", "1", "1">>
V2011_3_174 == <<"2", "0", "1", "1", ".", "3", ".", "1", "7", "4">>
V2013 == <<"2", "0", "1", "3">>
V2013_sp1 == <<"2", "0", "1", "3", "_", "s", "p", "1">>
V2014 == <<"2", "0", "1", "4">>
V2015 == <<"2", "0", "1", "5">>
V2016 == <<"2", "0", "1", "6">>
V2016_0_109 == <<"2", "0", "1", "6", ".", "0", ".", "1", "0", "9">>

\* official_version values of the configurations explored
OfficialVersions ==
    { <<"1", "1", ".", "1", ".", "0", "7", "2">>,
      V2011,
      V2011_3_174,
      <<"2", "0", "1", "1", ".", "5", ".", "2", "2", "0">>,
      V2013,
      <<"2", "0", "1", "3", ".", "5", ".", "1", "9", "2">>,
      V2013_sp1,
      <<"2", "0", "1", "3", "_", "s", "p", "1", ".", "2", ".", "1", "4", "4">>,
      V2014,
      V2015,
      <<"2", "0", "1", "5", ".", "1", ".", "1", "3", "3">>,
      V2016,
      V2016_0_109,
      <<"2", "0", "1", "7", ".", "4", ".", "1", "9", "6">> }

\* The version literals official_version is compared with
Thresholds == {V2011, V2011_3_174, V2013_sp1, V2014, V2015, V2016}

\* LooseVersion(official_version) compared with each literal
ThresholdCmp ==
    [v \in OfficialVersions |-> [t \in Thresholds |-> LooseVersionCmp(v, t)]]

\* LooseVersion(v) < LooseVersion(t), and <=, >, >=
VerLT(v, t) == ThresholdCmp[v][t] < 0
VerLE(v, t) == ThresholdCmp[v][t] <= 0
VerGT(v, t) == ThresholdCmp[v][t] > 0
VerGE(v, t) == ThresholdCmp[v][t] >= 0

\* Characters of the generated version strings
GenChars == {"1", ".", "s"}

GenStrings == UNION { [1..n -> GenChars] : n \in 1..MaxVerLen }

\* Two versions that order differently as numbers and as strings
NumericPair == { <<"9">>, <<"1", "0">> }

\* A valid version string has a component
VersionStrings ==
    { s \in GenStrings \cup NumericPair \cup OfficialVersions : LooseVersion(s) # <<>> }

\* ------------------------------------------------------------ paths

\* os.path.join(a, b)
Join(a, b) ==
    IF b # <<>> /\ b[1] = "" /\ Len(b) > 1 THEN b
    ELSE IF a = <<>> THEN b
    ELSE IF a[Len(a)] = "" THEN SubSeq(a, 1, Len(a) - 1) \o b
    ELSE a \o b

IsPrefix(p, q) == Len(p) <= Len(q) /\ SubSeq(q, 1, Len(p)) = p

\* official_version.split('.')[0]
RECURSIVE FirstDotComponent(_)
FirstDotComponent(v) ==
    IF v = <<>> \/ v[1] = "." THEN <<>>
    ELSE <<v[1]>> \o FirstDotComponent(Tail(v))

\* 'documentation_%s' % official_version.split('.')[0]
DocPath(v) == "documentation_" \o Str(FirstDotComponent(v))

\* 'composer_xe_%s' % official_version
ComposerXe(v) == <<"composer_xe_" \o Str(v)>>

\* 'composerxe-%s' % official_version
ComposerXeDash(v) == <<"composerxe-" \o Str(v)>>

\* os.path.join('compilers_and_libraries_%s' % official_version, 'linux')
CompLibsSubdir(v) == Join(<<"compilers_and_libraries_" \o Str(v)>>, <<"linux">>)

\* 'debugger_%s' % official_version.split('.')[0]
DebuggerMajor(v) == <<"debugger_" \o Str(FirstDotComponent(v))>>

GdbMic(dp) == Join(dp, <<"gdb", "intel64_mic", "bin", "gdb-mic">>)
GdbIa(dp) == Join(dp, <<"gdb", "intel64", "bin", "gdb-ia">>)

idb_home_subdir == <<"bin", "intel64">>
IdbFile == Join(idb_home_subdir, <<"idb">>)

LibIntel64 == <<"lib", "intel64">>

\* ------------------------------------------------ the install root

\* Directories under the install root the easyblock asks about
CandDirs(v) ==
    IF VerLT(v, V2016) THEN {ComposerXe(v), ComposerXeDash(v)}
    ELSE {CompLibsSubdir(v)}

\* Files under the install root the easyblock asks about
CandFiles(v) ==
    {IdbFile} \cup
    (IF VerLT(v, V2015) THEN {}
     ELSE IF VerLT(v, V2016)
     THEN UNION { {GdbMic(Join(p, <<"debugger">>)), GdbIa(Join(p, <<"debugger">>))}
                  : p \in CandDirs(v) }
     ELSE {GdbMic(DebuggerMajor(v)), GdbIa(DebuggerMajor(v))})

\* What can be on disk of it: a file lies in a directory that exists.  The
\* 32-bit path asks about idb alone.
Filesystems(c) ==
    LET v == c.official_version
        dirs == IF c.m32 THEN {} ELSE CandDirs(v)
        files == IF c.m32 THEN {IdbFile} ELSE CandFiles(v)
    IN { fs \in [dirs : SUBSET dirs, files : SUBSET files] :
           \A d \in dirs : (\E f \in fs.files : IsPrefix(d, f)) => d \in fs.dirs }

\* os.path.isdir(os.path.join(self.installdir, p))
IsDir(fs, p) == p \in fs.dirs

\* os.path.isfile(os.path.join(self.installdir, p))
IsFile(fs, p) == p \in fs.files

\* Values of get_tbb_gccprefix()
TbbGccPrefixes == {"gcc4.1", "gcc4.4"}

\* Values of get_shared_lib_ext()
SharedLibExts == {"so", "dylib"}

\* ------------------------------------------------------ dict helpers

\* d[k] = v
Put(d, k, v) == [x \in DOMAIN d \cup {k} |-> IF x = k THEN v ELSE d[x]]

\* d[k].extend(frags)
Extend(d, k, frags) == [d EXCEPT ![k] = @ \o frags]

Range(s) == { s[i] : i \in DOMAIN s }

\* ------------------------------------------- make_module_req_guess

\* The guesses dict as first built
BaseGuesses(docpath) ==
    [ CLASSPATH |-> << <<"daal", "lib", "daal.jar">> >>,
      CPATH |-> << <<"ipp", "include">>, <<"mkl", "include">>,
                   <<"mkl", "include", "fftw">>, <<"tbb", "include">> >>,
      DAALROOT |-> << <<"daal">> >>,
      IPPROOT |-> << <<"ipp">> >>,
      LD_LIBRARY_PATH |-> << <<"lib">> >>,
      MANPATH |-> << <<"debugger", "gdb", "intel64", "share", "man">>,
                     <<"man", "common">>, <<"man", "en_US">>, <<"share", "man">> >>,
      PATH |-> << <<"tbb", "bin">>, <<"mkl", "bin">> >>,
      TBBROOT |-> << <<"tbb">> >>,
      MKLROOT |-> << <<"mkl">> >>,
      PSTLROOT |-> << <<"pstl">> >>,
      INFOPATH |-> << <<docpath>> >>,
      PKG_CONFIG_PATH |-> << <<"mkl", "bin", "pkgconfig">> >> ]

\* The 32-bit branch
Guesses32(g) ==
    Extend(Extend(g, "PATH", << <<"bin", "ia32">>, <<"tbb", "bin", "ia32">> >>),
           "LD_LIBRARY_PATH", << <<"lib", "ia32">> >>)

\* The 64-bit branch, up to the hide_mpi test
Guesses64(g, tbb) ==
    LET g1 == Extend(g, "PATH",
                  << <<"bin", "intel64">>,
                     <<"debugger", "gdb", "intel64", "bin">>,
                     <<"ipp", "bin", "intel64">>,
                     <<"tbb", "bin", "emt64">>,
                     <<"tbb", "bin", "intel64">> >>)
        g2 == Extend(g1, "LD_LIBRARY_PATH",
                  << <<"tbb", "lib", "intel64", tbb>>,
                     <<"mkl", "lib", "intel64">>,
                     <<"ipp", "lib", "intel64">>,
                     <<"debugger", "ipt", "intel64", "lib">>,
                     <<"compiler", "lib", "intel64">> >>)
    IN Put(g2, "MIC_LD_LIBRARY_PATH",
              << <<"compiler", "lib", "mic">>,
                 <<"debugger", "ipt", "lib", "mic">>,
                 <<"ipp", "lib", "mic">>,
                 <<"mkl", "lib", "mic">>,
                 <<"tbb", "lib", "mic">> >>)

\* The arguments the MPI branch hands to LD_LIBRARY_PATH's append
MpiLdArgs == << <<"mpi", "mic", "lib">>, <<"mpi", "intel64", "lib">> >>

\* list.append(*args) raises TypeError unless it gets exactly one argument
AppendRaises(args) == Len(args) # 1

\* The MPI branch, were its first append to return
GuessesMpi(g) ==
    LET g1 == Extend(g, "LD_LIBRARY_PATH", MpiLdArgs)
        g2 == Extend(g1, "MIC_LD_LIBRARY_PATH", << <<"", "mpi", "mic", "lib">> >>)
        g3 == Extend(g2, "PATH", << <<"mpi", "intel64", "bin">> >>)
    IN Extend(g3, "CPATH", << <<"mpi", "intel64", "include">> >>)

\* A layout step that builds the debugger path on the one set before.
LayoutAccumulating(old, v, cls, fs) ==
    IF VerLT(v, V2016)
    THEN LET p0 == ComposerXe(v)
             prefix == IF ~IsDir(fs, p0) /\ IsDir(fs, ComposerXeDash(v))
                       THEN ComposerXeDash(v) ELSE p0
         IN [ prefix |-> prefix,
              debuggerpath |-> IF VerGE(v, V2015)
                               THEN Join(IF old # None THEN old ELSE prefix,
                                         <<"debugger">>)
                               ELSE old ]
    ELSE [ prefix |-> cls, debuggerpath |-> DebuggerMajor(v) ]

\* A layout step that sets the debugger path only after 2015.
LayoutAfter2015(old, v, cls, fs) ==
    IF VerLT(v, V2016)
    THEN LET p0 == ComposerXe(v)
             prefix == IF ~IsDir(fs, p0) /\ IsDir(fs, ComposerXeDash(v))
                       THEN ComposerXeDash(v) ELSE p0
         IN [ prefix |-> prefix,
              debuggerpath |-> IF VerGT(v, V2015)
                               THEN Join(prefix, <<"debugger">>)
                               ELSE old ]
    ELSE [ prefix |-> cls, debuggerpath |-> DebuggerMajor(v) ]

\* prefix and self.debuggerpath as the version branch of the 64-bit path
\* leaves them; old is self.debuggerpath before, cls self.comp_libs_subdir
Layout(old, v, cls, fs) ==
    IF VerLT(v, V2016)
    THEN LET p0 == ComposerXe(v)
             prefix == IF ~IsDir(fs, p0) /\ IsDir(fs, ComposerXeDash(v))
                       THEN ComposerXeDash(v) ELSE p0
         IN [ prefix |-> prefix,
              debuggerpath |-> IF VerGE(v, V2015)
                               THEN Join(prefix, <<"debugger">>)
                               ELSE old ]
    ELSE [ prefix |-> cls, debuggerpath |-> DebuggerMajor(v) ]

\* The 64-bit path after the version branch: the 2016 layout's extra
\* LD_LIBRARY_PATH entries, then 'lib/intel64'
Guesses64Tail(g, v, dp) ==
    LET g1 == IF VerLT(v, V2016) THEN g
              ELSE Extend(g, "LD_LIBRARY_PATH",
                       << Join(dp, <<"libipt", "intel64", "lib">>),
                          <<"daal", "lib", "intel64_lin">> >>)
    IN Extend(g1, "LD_LIBRARY_PATH", <<LibIntel64>>)

\* set debugger path
GuessesDebuggerPath(g, dp) ==
    IF dp # None
    THEN Extend(g, "PATH", << Join(Join(Join(dp, <<"gdb">>), <<"intel64">>), <<"bin">>) >>)
    ELSE g

\* for key, subdirs in guesses.items(): prefix every subdir
Rewrite(g, prefix) ==
    [k \in DOMAIN g |-> [i \in 1..Len(g[k]) |-> Join(prefix, g[k][i])]]

\* The fragments added after the rewrite whatever the debugger path
GuessesAux(g, docpath) ==
    LET g1 == Extend(g, "LD_LIBRARY_PATH", << <<"daal", "lib", "intel64_lin">> >>)
        g2 == Extend(g1, "CPATH", <<>>)
        g3 == Extend(g2, "PATH",
                  << <<"daal", "bin">>, <<"advisor", "bin64">>, <<"advisor_xe", "bin64">>,
                     <<"inspector", "bin64">>, <<"inspector_xe", "bin64">> >>)
        g4 == Extend(g3, "MANPATH",
                  << <<"man", "common">>,
                     <<docpath, "en", "debugger", "", "gdb-mic", "man">>,
                     <<docpath, "en", "debugger", "", "gdb-igfx", "man">>,
                     <<docpath, "en", "debugger", "", "gdb-ia", "man">> >>)
    IN Extend(g4, "INFOPATH",
           << <<docpath, "en", "debugger", "", "gdb-mic", "info">>,
              <<docpath, "en", "debugger", "", "gdb-ia", "info">>,
              <<docpath, "en", "debugger", "", "gdb-igfx", "info">> >>)

\* for gdb in guesses['GDB_CROSS']: the first that exists, else both
GdbCross(dp, fs) ==
    IF IsFile(fs, GdbMic(dp)) THEN <<GdbMic(dp)>>
    ELSE IF IsFile(fs, GdbIa(dp)) THEN <<GdbIa(dp)>>
    ELSE <<GdbMic(dp), GdbIa(dp)>>

\* The fragments added after the rewrite when the debugger path is set
GuessesDebuggerAux(g, dp, fs) ==
    IF dp = None THEN g
    ELSE LET g1 == Extend(g, "LD_LIBRARY_PATH",
                       << Join(dp, <<"libipt", "intel64", "lib">>),
                          Join(dp, <<"iga", "lib">>) >>)
             g2 == Put(g1, "GDB_CROSS", GdbCross(dp, fs))
         IN Put(g2, "GDBSERVER_MIC",
                << Join(dp, <<"gdb", "targets", "intel64", "x200", "bin", "gdbserver">>),
                   Join(dp, <<"gdb", "targets", "mic", "bin", "gdbserver">>) >>)

\* if prefix and os.path.isdir(os.path.join(self.installdir, prefix))
PrefixApplies(prefix, fs) == prefix # None /\ IsDir(fs, prefix)

\* An $IDB_HOME that is set to an empty list when idb is missing.
GuessesIdbHomeAlways(g, fs) ==
    Put(g, "IDB_HOME", IF IsFile(fs, IdbFile) THEN <<idb_home_subdir>> ELSE <<>>)

\* only set $IDB_HOME if idb exists
GuessesIdbHome(g, fs) ==
    IF IsFile(fs, IdbFile) THEN Put(g, "IDB_HOME", <<idb_home_subdir>>) ELSE g

\* A LIBRARY_PATH that is a list of its own, copied from LD_LIBRARY_PATH.
LibraryPathCopied(d) ==
    [ refs |-> Put(d.refs, "LIBRARY_PATH", "LIBRARY_PATH"),
      heap |-> Put(d.heap, "LIBRARY_PATH", d.heap[d.refs["LD_LIBRARY_PATH"]]) ]

\* guesses['LIBRARY_PATH'] = guesses['LD_LIBRARY_PATH'], on the dict object
\* d: refs maps each key to its list object, heap each list object to its
\* fragments
LibraryPath(d) ==
    [ refs |-> Put(d.refs, "LIBRARY_PATH", d.refs["LD_LIBRARY_PATH"]),
      heap |-> d.heap ]

\* The dict whose keys each hold a list object of their own
DictOf(g) == [ refs |-> [k \in DOMAIN g |-> k], heap |-> g ]

\* The dict just before the prefix test, for the debugger path dp the call
\* has by then
GuessesBeforePrefix(c, dp, tbb) ==
    LET v == c.official_version
        g0 == BaseGuesses(DocPath(v))
        g1 == IF c.m32 THEN Guesses32(g0) ELSE Guesses64(g0, tbb)
        g2 == IF ~c.m32 /\ ~c.hide_mpi THEN GuessesMpi(g1) ELSE g1
        g3 == IF c.m32 THEN g2 ELSE Guesses64Tail(g2, v, dp)
    IN GuessesDebuggerPath(g3, dp)

\* The dict from the prefix test to the return
GuessesFromPrefix(g, c, prefix, dp, fs) ==
    LET g5 == IF PrefixApplies(prefix, fs)
              THEN GuessesDebuggerAux(
                       GuessesAux(Rewrite(g, prefix), DocPath(c.official_version)),
                       dp, fs)
              ELSE g
    IN LibraryPath(DictOf(GuessesIdbHome(g5, fs)))

\* The call from the first line to the return: whether it raised, what it
\* left in self.debuggerpath, the prefix it chose and the dict it returned.
Guess(c, old, cls, fs, tbb) ==
    IF ~c.m32 /\ ~c.hide_mpi /\ AppendRaises(MpiLdArgs)
    THEN [ raised |-> TRUE, debuggerpath |-> old, prefix |-> None, dict |-> DictOf(<<>>) ]
    ELSE \* CHOOSE binds the layout once
         LET lay == CHOOSE l \in { IF c.m32 THEN [prefix |-> None, debuggerpath |-> old]
                                   ELSE Layout(old, c.official_version, cls, fs) } : TRUE
         IN [ raised |-> FALSE,
              debuggerpath |-> lay.debuggerpath,
              prefix |-> lay.prefix,
              dict |-> GuessesFromPrefix(
                           GuessesBeforePrefix(c, lay.debuggerpath, tbb),
                           c, lay.prefix, lay.debuggerpath, fs) ]

\* ------------------------------------------------------ sanity check

\* Prefixes whose first threshold test is strict.
SanityPrefixesStrict(v) ==
    IF VerGE(v, V2011)
    THEN IF VerLT(v, V2011_3_174)
         THEN [binprefix |-> <<"bin">>, libprefix |-> <<"lib", "intel64">>]
         ELSE IF VerGE(v, V2013_sp1)
         THEN [binprefix |-> <<"bin">>, libprefix |-> <<"lib", "intel64">>]
         ELSE [binprefix |-> <<"bin", "intel64">>,
               libprefix |-> <<"compiler", "lib", "intel64">>]
    ELSE [binprefix |-> <<"bin", "intel64">>, libprefix |-> <<"lib", "intel64">>]

\* binprefix and libprefix of sanity_check_step
SanityPrefixes(v) ==
    IF VerGE(v, V2011)
    THEN IF VerLE(v, V2011_3_174)
         THEN [binprefix |-> <<"bin">>, libprefix |-> <<"lib", "intel64">>]
         ELSE IF VerGE(v, V2013_sp1)
         THEN [binprefix |-> <<"bin">>, libprefix |-> <<"lib", "intel64">>]
         ELSE [binprefix |-> <<"bin", "intel64">>,
               libprefix |-> <<"compiler", "lib", "intel64">>]
    ELSE [binprefix |-> <<"bin", "intel64">>, libprefix |-> <<"lib", "intel64">>]

\* A file list that asks for the header from 2015 on.
SanityFilesFrom2015(v, ext) ==
    LET pre == SanityPrefixes(v)
        binfiles == <<"icc", "icpc">> \o (IF VerLT(v, V2014) THEN <<"idb">> ELSE <<>>)
        libs == <<"iomp5.a", "iomp5." \o ext>>
        binaries == [i \in 1..Len(binfiles) |-> Join(pre.binprefix, <<binfiles[i]>>)]
        libraries == [i \in 1..Len(libs) |-> Join(pre.libprefix, <<"lib" \o libs[i]>>)]
    IN binaries \o libraries \o
       (IF VerGE(v, V2015) THEN << <<"include", "omp.h">> >> ELSE <<>>)

\* sanity_check_files of sanity_check_step
SanityFiles(v, ext) ==
    LET pre == SanityPrefixes(v)
        binfiles == <<"icc", "icpc">> \o (IF VerLT(v, V2014) THEN <<"idb">> ELSE <<>>)
        libs == <<"iomp5.a", "iomp5." \o ext>>
        binaries == [i \in 1..Len(binfiles) |-> Join(pre.binprefix, <<binfiles[i]>>)]
        libraries == [i \in 1..Len(libs) |-> Join(pre.libprefix, <<"lib" \o libs[i]>>)]
    IN binaries \o libraries \o
       (IF VerGT(v, V2015) THEN << <<"include", "omp.h">> >> ELSE <<>>)

\* ------------------------------------------------------------ states

Configs == [official_version : OfficialVersions, m32 : BOOLEAN, hide_mpi : BOOLEAN]

\* The install roots a call can find, per configuration
FilesystemsOf == [c \in Configs |-> Filesystems(c)]

NoProbe == [fs |-> [dirs |-> {}, files |-> {}], tbb |-> ""]

NoSanity == [called |-> FALSE]

NoDict == [refs |-> <<>>, heap |-> <<>>]

\* What the caller of make_module_req_guess appends to a list it got
CallerFragment == <<"caller", "added">>

\* The keys whose lists the caller appends to
AppendKeys == {"LD_LIBRARY_PATH", "LIBRARY_PATH", "PATH"}

\* self.comp_libs_subdir as __init__ sets it
InitCompLibsSubdir(v) == IF VerGE(v, V2016) THEN CompLibsSubdir(v) ELSE None

\* The instance after __init__, for the configuration c
Constructed(c) ==
    /\ cfg = c
    /\ debuggerpath = None
    /\ comp_libs_subdir = InitCompLibsSubdir(c.official_version)
    /\ outcome = "none"
    /\ guesses = NoDict.refs
    /\ heap = NoDict.heap
    /\ probe = NoProbe
    /\ repeated = FALSE
    /\ appended = <<>>
    /\ sanity = NoSanity

Init ==
    /\ \E c \in Configs : Constructed(c)
    /\ va = <<>> /\ vb = <<>> /\ vc = <<>>
    /\ cmps = <<>>

\* ----------------------------------------------------------- actions

make_module_req_guess(fs, tbb) ==
    \E r \in {Guess(cfg, debuggerpath, comp_libs_subdir, fs, tbb)} :
       /\ debuggerpath' = r.debuggerpath
       /\ outcome' = IF r.raised THEN "TypeError" ELSE "returned"
       /\ guesses' = IF r.raised THEN NoDict.refs ELSE r.dict.refs
       /\ heap' = IF r.raised THEN NoDict.heap ELSE r.dict.heap
       /\ probe' = [fs |-> fs, tbb |-> tbb]
       /\ repeated' = (outcome # "none" /\ probe = [fs |-> fs, tbb |-> tbb])
       /\ appended' = <<>>
       /\ UNCHANGED <<cfg, comp_libs_subdir, sanity, va, vb, vc, cmps>>

sanity_check_step(ext) ==
    LET v == cfg.official_version
        pre == SanityPrefixes(v)
    IN /\ sanity' = [ called |-> TRUE,
                      binprefix |-> pre.binprefix,
                      libprefix |-> pre.libprefix,
                      shlib_ext |-> ext,
                      custom_paths |->
                          [ files |-> SanityFiles(v, ext),
                            dirs |-> IF comp_libs_subdir # None
                                     THEN <<comp_libs_subdir>> ELSE <<>> ],
                      custom_commands |-> <<"which icc">> ]
       /\ UNCHANGED <<cfg, debuggerpath, comp_libs_subdir, outcome, guesses, heap,
                      probe, repeated, appended, va, vb, vc, cmps>>

\* The caller appends a fragment to a list of the dict it was returned.
CallerAppend(k) ==
    /\ outcome = "returned"
    /\ Len(appended) < MaxAppend
    /\ k \in DOMAIN guesses
    /\ heap' = [heap EXCEPT ![guesses[k]] = @ \o <<CallerFragment>>]
    /\ appended' = Append(appended, k)
    /\ UNCHANGED <<cfg, debuggerpath, comp_libs_subdir, outcome, guesses, probe,
                   repeated, sanity, va, vb, vc, cmps>>

Next ==
    \/ \E fs \in FilesystemsOf[cfg], tbb \in TbbGccPrefixes :
           make_module_req_guess(fs, tbb)
    \/ \E k \in AppendKeys : CallerAppend(k)

Spec == Init /\ [][Next]_vars

\* ------------------------------------------- the sanity check alone

NextSanity == \E ext \in SharedLibExts : sanity_check_step(ext)

SpecSanity == Init /\ [][NextSanity]_vars

\* ------------------------------------------- comparing version strings

InitCmp ==
    /\ Constructed([official_version |-> V2016_0_109, m32 |-> FALSE, hide_mpi |-> TRUE])
    /\ va \in VersionStrings /\ vb \in VersionStrings /\ vc \in VersionStrings
    /\ cmps = <<>>

\* LooseVersion(x) <op> LooseVersion(y) for the pairs among va, vb, vc
Compare ==
    /\ cmps = <<>>
    /\ cmps' = [ aa |-> LooseVersionCmp(va, va),
                 ab |-> LooseVersionCmp(va, vb),
                 ba |-> LooseVersionCmp(vb, va),
                 bc |-> LooseVersionCmp(vb, vc),
                 ac |-> LooseVersionCmp(va, vc),
                 same_ab |-> LooseVersion(va) = LooseVersion(vb) ]
    /\ UNCHANGED <<cfg, debuggerpath, comp_libs_subdir, outcome, guesses, heap,
                   probe, repeated, appended, sanity, va, vb, vc>>

NextCmp == Compare

SpecCmp == InitCmp /\ [][NextCmp]_vars

\* ----------------------------------------------------------- claims

\* The fragments of the returned dict's key k
Value(k) == heap[guesses[k]]

\* The prefix the last call chose
LastPrefix ==
    IF cfg.m32 THEN None
    ELSE Layout(debuggerpath, cfg.official_version, comp_libs_subdir, probe.fs).prefix

\* The last call rewrote the fragments
Rewritten == PrefixApplies(LastPrefix, probe.fs)

AtReturn == outcome = "returned" /\ appended = <<>>

\* C1: whatever the version, the flags and the install root, the returned
\* LD_LIBRARY_PATH list ends with "lib/intel64", or with
\* "<prefix>/lib/intel64" when the fragments were rewritten.
C1_LdLibraryPathEndsWithLibIntel64 ==
    AtReturn =>
        LET ld == Value("LD_LIBRARY_PATH")
        IN ld[Len(ld)] = IF Rewritten THEN Join(LastPrefix, LibIntel64) ELSE LibIntel64

IsMpiFragment(f) == "mpi" \in Range(f)

\* C2: every call returns a dict, in which LD_LIBRARY_PATH, PATH and CPATH
\* each hold an MPI fragment exactly when hide_mpi is false.
C2_MpiFragmentsIffNotHidden ==
    outcome # "none" =>
        /\ outcome = "returned"
        /\ \A k \in {"LD_LIBRARY_PATH", "PATH", "CPATH"} :
               (\E i \in DOMAIN Value(k) : IsMpiFragment(Value(k)[i])) <=> ~cfg.hide_mpi

\* C3: binprefix and libprefix of the sanity check depend on the version
\* alone: bin/intel64 and lib/intel64 before 2011; bin and lib/intel64 from
\* 2011 to 2011.3.174 and from 2013_sp1 on; bin/intel64 and
\* compiler/lib/intel64 in between.
C3_SanityPrefixesByVersion ==
    sanity.called =>
        LET v == cfg.official_version
        IN <<sanity.binprefix, sanity.libprefix>> =
           IF LooseVersionCmp(v, V2011) < 0
           THEN << <<"bin", "intel64">>, <<"lib", "intel64">> >>
           ELSE IF \/ LooseVersionCmp(v, V2011_3_174) <= 0
                   \/ LooseVersionCmp(v, V2013_sp1) >= 0
           THEN << <<"bin">>, <<"lib", "intel64">> >>
           ELSE << <<"bin", "intel64">>, <<"compiler", "lib", "intel64">> >>

\* A 32-bit configuration between 2011.3.174 and 2013_sp1 was checked.
C3_Witness ==
    /\ sanity.called
    /\ cfg.m32
    /\ cfg.official_version = <<"2", "0", "1", "3", ".", "5", ".", "1", "9", "2">>
    /\ sanity.libprefix = <<"compiler", "lib", "intel64">>

\* C4: comparing version strings is a total order: a version equals itself,
\* cmp(a, b) is the opposite of cmp(b, a) and is 0 only for equal versions,
\* and a <= b <= c gives a <= c; 2011.3.174 < 2013_sp1 < 2014 < 2016.0.109
\* and 2013 < 2013_sp1 < 2014.
C4_TotalOrder ==
    cmps # <<>> =>
        /\ cmps.aa = 0
        /\ cmps.ab = -cmps.ba
        /\ (cmps.ab = 0) <=> cmps.same_ab
        /\ (cmps.ab <= 0 /\ cmps.bc <= 0) => cmps.ac <= 0
        /\ (va = V2011_3_174 /\ vb = V2013_sp1 /\ vc = V2014)
               => (cmps.ab < 0 /\ cmps.bc < 0)
        /\ (va = V2013_sp1 /\ vb = V2014 /\ vc = V2016_0_109)
               => (cmps.ab < 0 /\ cmps.bc < 0)
        /\ (va = V2013 /\ vb = V2013_sp1 /\ vc = V2014)
               => (cmps.ab < 0 /\ cmps.bc < 0)

\* An all-numeric version was compared with 2013_sp1, and that with 2014.
C4_Witness ==
    /\ cmps # <<>>
    /\ va = <<"2", "0", "1", "3", ".", "5", ".", "1", "9", "2">>
    /\ vb = V2013_sp1
    /\ vc = V2014
    /\ cmps.ab = -1 /\ cmps.bc = -1 /\ cmps.ac = -1

\* C5: the returned dict has the key IDB_HOME exactly when bin/intel64/idb
\* exists under the install root, and then its value is ["bin/intel64"],
\* without the prefix.
C5_IdbHomeIffIdbExists ==
    AtReturn =>
        /\ ("IDB_HOME" \in DOMAIN guesses) <=> IsFile(probe.fs, IdbFile)
        /\ "IDB_HOME" \in DOMAIN guesses => Value("IDB_HOME") = << <<"bin", "intel64">> >>

\* idb exists and the fragments were rewritten.
C5_Witness ==
    /\ AtReturn
    /\ Rewritten
    /\ "IDB_HOME" \in DOMAIN guesses
    /\ Value("PATH")[1] = Join(LastPrefix, <<"tbb", "bin">>)

\* C6 as stated: LIBRARY_PATH has the contents of LD_LIBRARY_PATH at return
\* and is a list of its own, so that what the caller appends to another
\* list does not show in it.
C6_LibraryPathIsSnapshot ==
    outcome = "returned" =>
        /\ appended = <<>> => Value("LIBRARY_PATH") = Value("LD_LIBRARY_PATH")
        /\ guesses["LIBRARY_PATH"] # guesses["LD_LIBRARY_PATH"]
        /\ "LIBRARY_PATH" \notin Range(appended)
               => CallerFragment \notin Range(Value("LIBRARY_PATH"))

\* C6 as amended: LIBRARY_PATH is the list object of LD_LIBRARY_PATH: the
\* two have the same contents at return and after every append, and what
\* the caller appends to LD_LIBRARY_PATH shows in LIBRARY_PATH.
C6_LibraryPathIsAlias ==
    outcome = "returned" =>
        /\ Value("LIBRARY_PATH") = Value("LD_LIBRARY_PATH")
        /\ "LD_LIBRARY_PATH" \in Range(appended)
               => CallerFragment \in Range(Value("LIBRARY_PATH"))

\* The caller appended to the returned LD_LIBRARY_PATH list.
C6_Witness ==
    /\ outcome = "returned"
    /\ appended = <<"LD_LIBRARY_PATH">>
    /\ Value("LIBRARY_PATH")[Len(Value("LIBRARY_PATH"))] = CallerFragment

\* C7: a call that gets the answers the call before it got ends as that
\* call did, with an equal dict, whatever the first left in
\* self.debuggerpath.
C7_SecondCallEqualsFirst ==
    [][ (outcome # "none" /\ appended = <<>> /\ appended' = <<>> /\ repeated')
            => (outcome' = outcome /\ guesses' = guesses /\ heap' = heap) ]_vars

\* A second call with the same answers returned, the debugger path set.
C7_Witness ==
    /\ AtReturn
    /\ repeated
    /\ debuggerpath # None
    /\ Rewritten

\* C8 as stated: after a call, the debugger path is set exactly when the
\* version is 2015 or later; it is "debugger/<version>" before 2016 and
\* "debugger_<first component>" from 2016 on.
C8_DebuggerPathByVersion ==
    outcome # "none" =>
        LET v == cfg.official_version
        IN debuggerpath =
           IF LooseVersionCmp(v, V2015) < 0 THEN None
           ELSE IF LooseVersionCmp(v, V2016) < 0 THEN <<"debugger", Str(v)>>
           ELSE <<"debugger_" \o Str(FirstDotComponent(v))>>

\* C8 as amended: after a call, the debugger path is set exactly when the
\* call returned, the 32-bit flag is off and the version is 2015 or later;
\* it is "<prefix>/debugger" before 2016, the prefix being
\* "composerxe-<version>" when that directory exists and
\* "composer_xe_<version>" does not, and "composer_xe_<version>" otherwise,
\* and "debugger_<first component>" from 2016 on.
C8_DebuggerPathAmended ==
    outcome # "none" =>
        LET v == cfg.official_version
            xe == <<"composer_xe_" \o Str(v)>>
            dash == <<"composerxe-" \o Str(v)>>
        IN debuggerpath =
           IF outcome # "returned" \/ cfg.m32 \/ LooseVersionCmp(v, V2015) < 0
           THEN None
           ELSE IF LooseVersionCmp(v, V2016) < 0
           THEN (IF xe \notin probe.fs.dirs /\ dash \in probe.fs.dirs THEN dash ELSE xe)
                \o <<"debugger">>
           ELSE <<"debugger_" \o Str(FirstDotComponent(v))>>

\* A 2015 install under composerxe-<version> was guessed.
C8_Witness ==
    /\ outcome = "returned"
    /\ cfg.official_version = V2015
    /\ debuggerpath = <<"composerxe-2015", "debugger">>

\* C9: the sanity check asks for icc and icpc under binprefix, idb too
\* before 2014, the static and the shared iomp5 library under libprefix and
\* include/omp.h after 2015; for compilers_and_libraries_<version>/linux
\* from 2016 on and no directory before; and for the command "which icc".
C9_SanityCheckSpec ==
    sanity.called =>
        LET v == cfg.official_version
            bp == sanity.binprefix
            lp == sanity.libprefix
        IN /\ sanity.custom_paths.files =
                  << bp \o <<"icc">>, bp \o <<"icpc">> >>
                  \o (IF LooseVersionCmp(v, V2014) < 0 THEN << bp \o <<"idb">> >> ELSE <<>>)
                  \o << lp \o <<"libiomp5.a">>, lp \o <<"libiomp5." \o sanity.shlib_ext>> >>
                  \o (IF LooseVersionCmp(v, V2015) > 0
                      THEN << <<"include", "omp.h">> >> ELSE <<>>)
           /\ sanity.custom_paths.dirs =
                  IF LooseVersionCmp(v, V2016) >= 0
                  THEN << <<"compilers_and_libraries_" \o Str(v), "linux">> >>
                  ELSE <<>>
           /\ sanity.custom_commands = <<"which icc">>

\* Version 2015 itself was checked: no idb, no header, no directory.
C9_Witness ==
    /\ sanity.called
    /\ cfg.official_version = V2015
    /\ Len(sanity.custom_paths.files) = 4
    /\ sanity.custom_paths.dirs = <<>>

\* C10: when the prefix directory exists, every fragment of before the
\* rewrite is returned with the prefix in front, and no returned fragment
\* starts with the prefix twice; when the prefix is unset or its directory
\* missing, the fragments are returned as they were and no key is added
\* but IDB_HOME and LIBRARY_PATH.
C10_PrefixOnce ==
    AtReturn =>
        LET pre == GuessesBeforePrefix(cfg, debuggerpath, probe.tbb)
            twice == LastPrefix \o LastPrefix
        IN IF Rewritten
           THEN /\ \A k \in DOMAIN pre : \A i \in DOMAIN pre[k] :
                       Value(k)[i] = LastPrefix \o pre[k][i]
                /\ \A k \in DOMAIN guesses : \A i \in DOMAIN Value(k) :
                       ~IsPrefix(twice, Value(k)[i])
           ELSE /\ \A k \in DOMAIN pre : Value(k) = pre[k]
                /\ DOMAIN guesses \subseteq DOMAIN pre \cup {"IDB_HOME", "LIBRARY_PATH"}

====
